---- MODULE Spec2Model ----
(***************************************************************************)
(* MelNet: the GMM attention of model/tts.py (Attention, TTS) and the      *)
(* batching / splitting code of datasets/wavloader.py.                     *)
(*                                                                         *)
(* Numbers.  Tensor values are fixed-point integers, SCALE standing for    *)
(* 1.0.  Arguments of torch.exp are kept in quarter units (q stands for    *)
(* q/4), so exp is a table over quarters; a quotient that is fed to exp is *)
(* rounded down to a quarter.  Rounding is monotone, as it is for floats.  *)
(* The hidden size D is 1: a memory row, a context and a recurrent state   *)
(* are single numbers.  Learned weights (W_g, W_c_0, the LSTM cells, the   *)
(* embedding) are fixed arbitrary tables.                                  *)
(***************************************************************************)
EXTENDS Integers, Sequences, FiniteSets, TLC

\* ------------------------------------------------------------------ bounds
MaxK      == 2      \* largest hp.model.gmm tried
MaxTm     == 2      \* longest padded text (memory length T)
MaxTout   == 2      \* most output frames (loop steps of Attention.forward)
MaxPasses == 2      \* forward passes through one Attention object
MaxBatch  == 2      \* most samples given to a collate function
MaxFiles  == 4      \* most samples of a file list tried in every order

Batch == 1 .. 2     \* the samples of a batch
None  == "None"  \* an unset scalar or record
Unset == <<>>    \* Python's None where a tensor may stand

VARIABLES
    \* ---- one Attention object and the forward pass running through it
    a_pc,           \* "new", "init_error", "idle", "loop", "returned", "error"
    M,              \* self.M
    ksi_hat_cum,    \* self.ksi_hat_cum
    ksi_hat,        \* ksi_hat of the latest attention call
    beta_hat,       \* self.beta_hat
    alpha_hat,      \* self.alpha_hat
    text,           \* the padded token batch given to TTS.forward
    input_lengths,  \* the text lengths
    input_h_c,      \* the query sequence, per sample
    memory,         \* the encoded text, per sample
    i,              \* the loop index of Attention.forward
    h_i, c_i,       \* the recurrent state
    context,        \* the context of the latest step
    contexts,       \* the list contexts
    weights,        \* the list weights
    termination,    \* the termination of the latest step
    step_terms,     \* history: the termination every step computed
    ret,            \* what Attention.forward returned
    passes,         \* forward passes started
    \* ---- one evaluation of the mixture on given parameters
    g_pc,           \* "args", "done"
    g_phi,          \* the raw projection phi_hat of one sample (3*M values)
    g_T,            \* the memory length
    g_out,          \* the weights and the termination computed
    \* ---- TTS.forward and TTS.sample
    output_lengths, \* the audio lengths given to TTS.forward
    t_pc,           \* "ready", "forward_done", "sample_loop", "sample_error"
    K,              \* self.K
    theta_hat,      \* self.W_theta(h_f), indexed [sample][bin][frame][3*K]
    t_ret,          \* what TTS.forward returned: mu, std, pi
    s_size,         \* the size [M, T] of the x given to TTS.sample
    s_memory,       \* what TTS.sample holds in memory
    s_i,            \* the loop index of TTS.sample
    s_err,          \* the exception TTS.sample ended with
    \* ---- TextCollate / AudioCollate
    c_pc,           \* "ready", "text", "audio"
    batch,          \* the list of samples given to the collate function
    collated,       \* what it returned
    \* ---- the datasets' shuffle and split
    file_list,      \* the samples found, before the shuffle
    rng,            \* the state of Python's global random generator
    shuffled,       \* the list as the latest construction shuffled it
    train_list,     \* the list of the latest dataset built with train=True
    val_list,       \* the list of the latest dataset built with train=False
    built           \* which of the two have been built

attn_vars == <<a_pc, M, ksi_hat_cum, ksi_hat, beta_hat, alpha_hat, text,
               input_lengths, input_h_c, memory, i, h_i, c_i, context, contexts,
               weights, termination, step_terms, ret, passes>>

gmm_vars == <<g_pc, g_phi, g_T, g_out>>

tts_vars == <<t_pc, K, theta_hat, t_ret, s_size, s_memory, s_i, s_err>>

collate_vars == <<c_pc, batch, collated>>

split_vars == <<file_list, rng, shuffled, train_list, val_list, built>>

vars == <<attn_vars, gmm_vars, output_lengths, tts_vars, collate_vars, split_vars>>

\* ------------------------------------------------------------- arithmetic
SCALE == 1000

RECURSIVE ExpQ(_)
ExpQ(q) == IF q = 0 THEN SCALE
           ELSE IF q > 0 THEN (ExpQ(q - 1) * 1284) \div 1000
           ELSE (ExpQ(q + 1) * 779) \div 1000

ExpTab == [q \in -28 .. 28 |-> ExpQ(q)]

\* torch.exp on a quarter-unit argument; saturates where a float result no
\* longer changes reciprocal(1 + exp(.)) at this resolution.
exp(q) == ExpTab[IF q > 28 THEN 28 ELSE IF q < -28 THEN -28 ELSE q]

RECURSIVE SumTo(_, _)
SumTo(f, n) == IF n = 0 THEN 0 ELSE f[n] + SumTo(f, n - 1)

\* torch.sum over a sequence
sum(f) == SumTo(f, Len(f))

\* F.softmax over the last dimension (raw values in quarter units)
softmax(raw) ==
    LET e == [k \in 1 .. Len(raw) |-> exp(raw[k])]
    IN  [k \in 1 .. Len(raw) |-> (e[k] * SCALE) \div sum(e)]

\* lines 39/42/50 with the sign of the exponent flipped
cdf_flipped(ksi, beta, z) ==
    (SCALE * SCALE) \div (SCALE + exp((4 * (z - ksi)) \div beta))

\* torch.reciprocal(1 + torch.exp((ksi_hat - z) / beta_hat)): the logistic CDF at z
cdf(ksi, beta, z) ==
    (SCALE * SCALE) \div (SCALE + exp((4 * (ksi - z)) \div beta))

\* self.u + 0.5 and self.u - 0.5 for the memory position u (0-based)
u_R(u) == ((2 * u + 1) * SCALE) \div 2
u_L(u) == ((2 * u - 1) * SCALE) \div 2

\* self.W_g: nn.Linear(hidden, 3*M), raw outputs in quarter units
W_g(h, nM) == [j \in 1 .. 3 * nM |-> ((h * j + 2 * j + h) % 9) - 3]

\* the split of phi_hat into centers, scales and mixture weights of one sample
Project(phi_hat, nM) ==
    [ksi_hat   |-> [k \in 1 .. nM |-> exp(phi_hat[k])],
     beta_hat  |-> [k \in 1 .. nM |-> exp(phi_hat[nM + k])],
     alpha_hat |-> softmax([k \in 1 .. nM |-> phi_hat[2 * nM + k]])]

\* The alignment weights and the termination of one sample over a memory of
\* length T.  Position p of a sequence is the memory position u = p - 1.
GMM(ksi, beta, alpha, T) ==
    LET nM    == Len(alpha)
        term1 == [p \in 1 .. T |->
                    sum([k \in 1 .. nM |->
                        (alpha[k] * cdf(ksi[k], beta[k], u_R(p - 1))) \div SCALE])]
        term2 == [p \in 1 .. T |->
                    sum([k \in 1 .. nM |->
                        (alpha[k] * cdf(ksi[k], beta[k], u_L(p - 1))) \div SCALE])]
    IN  [weights     |-> [p \in 1 .. T |-> term1[p] - term2[p]],
         termination |-> [p \in 1 .. T |-> SCALE - term1[p]]]

\* torch.bmm(weights, memory) for one sample
bmm(w, mem) ==
    sum([p \in 1 .. Len(mem) |-> w[p] * mem[p]])

\* lines 23-28, the disabled variant: centers accumulate in self.ksi_hat_cum
attention_cumulative(hs, mem, nM, cum) ==
    LET pr  == [b \in Batch |-> Project(W_g(hs[b], nM), nM)]
        ksi == [b \in Batch |->
                  IF cum = Unset THEN pr[b].ksi_hat
                  ELSE [k \in 1 .. nM |-> cum[1][b][k] + pr[b].ksi_hat[k]]]
        g   == [b \in Batch |->
                  GMM(ksi[b], pr[b].beta_hat, pr[b].alpha_hat, Len(mem[b]))]
    IN  [context     |-> [b \in Batch |-> bmm(g[b].weights, mem[b])],
         weights     |-> [b \in Batch |-> g[b].weights],
         termination |-> [b \in Batch |-> g[b].termination],
         ksi_hat     |-> ksi,
         beta_hat    |-> [b \in Batch |-> pr[b].beta_hat],
         alpha_hat   |-> [b \in Batch |-> pr[b].alpha_hat],
         ksi_hat_cum |-> <<ksi>>]

\* Attention.attention over the batch: hs (h_i) and mem (memory) are indexed
\* by sample; cum is self.ksi_hat_cum, and the result carries the attributes
\* the call leaves on self (ksi_hat_cum is not assigned: the block of lines
\* 22-29 is a string literal).
attention(hs, mem, nM, cum) ==
    LET pr == [b \in Batch |-> Project(W_g(hs[b], nM), nM)]
        g  == [b \in Batch |->
                 GMM(pr[b].ksi_hat, pr[b].beta_hat, pr[b].alpha_hat, Len(mem[b]))]
    IN  [context     |-> [b \in Batch |-> bmm(g[b].weights, mem[b])],
         weights     |-> [b \in Batch |-> g[b].weights],
         termination |-> [b \in Batch |-> g[b].termination],
         ksi_hat     |-> [b \in Batch |-> pr[b].ksi_hat],
         beta_hat    |-> [b \in Batch |-> pr[b].beta_hat],
         alpha_hat   |-> [b \in Batch |-> pr[b].alpha_hat],
         ksi_hat_cum |-> cum]

\* self.rnn_cell: nn.LSTMCell on cat(query, context) and (h, c), one sample
rnn_cell(q, ctx, h, c) ==
    LET cn == (c + q + (ctx \div SCALE)) % 4
    IN  [h |-> (h + 2 * cn + 1) % 5, c |-> cn]

\* TTS.TextEncoder: nn.Embedding (no padding_idx) followed by an LSTM, one sample
RECURSIVE TextEncoder(_)
TextEncoder(toks) ==
    IF toks = <<>> THEN <<>>
    ELSE LET front == TextEncoder(SubSeq(toks, 1, Len(toks) - 1))
             prev  == IF front = <<>> THEN 0 ELSE front[Len(front)]
         IN  Append(front, ((2 * toks[Len(toks)] + 1 + prev) % 4) + 1)

\* self.W_c_0(F.pad(x, [1, -1]).transpose(1, 2)): the query of step t sees frame t - 1
W_c_0(x) == [t \in 1 .. Len(x) |-> IF t = 1 THEN 1 ELSE x[t - 1] + 1]

\* ------------------------------------------------- Attention, TTS.forward
zeros == [b \in Batch |-> 0]

\* input_h_c.new_zeros(B, D) for context, h_i and c_i
new_state == [h |-> zeros, c |-> zeros, context |-> zeros]

\* torch.gather(termination, 1, index): raises when an index is out of range
gather(term, index) ==
    IF \A b \in Batch : index[b] >= 0 /\ index[b] < Len(term[b])
    THEN [ok |-> TRUE, val |-> [b \in Batch |-> term[b][index[b] + 1]]]
    ELSE [ok |-> FALSE, val |-> Unset]

AttnStart ==
    /\ a_pc = "new" /\ M = 0 /\ ksi_hat_cum = <<"no attribute">>
    /\ ksi_hat = Unset /\ beta_hat = Unset /\ alpha_hat = Unset
    /\ text = Unset /\ input_lengths = Unset /\ input_h_c = Unset /\ memory = Unset
    /\ i = 0 /\ h_i = Unset /\ c_i = Unset /\ context = Unset
    /\ contexts = <<>> /\ weights = <<>> /\ termination = Unset
    /\ step_terms = <<>> /\ ret = None /\ passes = 0

\* Attention.__init__: nn.Linear(hidden, 3*M) raises on a negative size
AttentionInit ==
    /\ a_pc = "new"
    /\ \E gmm \in -1 .. MaxK :
        /\ M' = gmm
        /\ IF 3 * gmm < 0
           THEN a_pc' = "init_error" /\ UNCHANGED ksi_hat_cum
           ELSE a_pc' = "idle" /\ ksi_hat_cum' = Unset
    /\ UNCHANGED <<ksi_hat, beta_hat, alpha_hat, text, input_lengths, input_h_c,
                   memory, i, h_i, c_i, context, contexts, weights, termination,
                   step_terms, ret, passes>>
    /\ UNCHANGED <<gmm_vars, output_lengths, tts_vars, collate_vars, split_vars>>

\* TTS.forward up to the call of self.attention, and Attention.forward up to
\* its loop.  The batch is a collated one: the first sample is the longest in
\* text and in frames, the second may be padded; tokens are 1 or 2, padding 0.
Forward ==
    /\ a_pc \in {"idle", "returned", "error"}
    /\ passes < MaxPasses
    /\ \E Tm \in 0 .. MaxTm, Tout \in 1 .. MaxTout :
       \E l2 \in 0 .. Tm, o2 \in 1 .. Tout, sd \in {0, 1} :
        /\ Tm > 0 => l2 > 0
        /\ LET lens  == [b \in Batch |-> IF b = 1 THEN Tm ELSE l2]
               olens == [b \in Batch |-> IF b = 1 THEN Tout ELSE o2]
               txt   == [b \in Batch |->
                          [p \in 1 .. Tm |->
                             IF p <= lens[b] THEN ((sd + b + p) % 2) + 1 ELSE 0]]
               x     == [b \in Batch |-> [t \in 1 .. Tout |-> (sd + b + t) % 2]]
           IN  /\ text' = txt
               /\ input_lengths' = lens
               /\ output_lengths' = olens
               /\ memory' = [b \in Batch |-> TextEncoder(txt[b])]
               /\ input_h_c' = [b \in Batch |-> W_c_0(x[b])]
    /\ h_i' = new_state.h /\ c_i' = new_state.c /\ context' = new_state.context
    /\ contexts' = <<>> /\ weights' = <<>> /\ termination' = Unset
    /\ step_terms' = <<>> /\ ret' = None /\ i' = 0
    /\ passes' = passes + 1
    /\ a_pc' = "loop"
    /\ UNCHANGED <<M, ksi_hat_cum, ksi_hat, beta_hat, alpha_hat>>
    /\ UNCHANGED <<gmm_vars, tts_vars, collate_vars, split_vars>>

\* one iteration of the loop of Attention.forward
LoopStep ==
    /\ a_pc = "loop"
    /\ i < Len(input_h_c[1])
    /\ LET hc == [b \in Batch |->
                    rnn_cell(input_h_c[b][i + 1], context[b], h_i[b], c_i[b])]
           hn == [b \in Batch |-> hc[b].h]
           a  == attention(hn, memory, M, ksi_hat_cum)
       IN  /\ h_i' = hn
           /\ c_i' = [b \in Batch |-> hc[b].c]
           /\ context' = a.context
           /\ termination' = a.termination
           /\ contexts' = Append(contexts, a.context)
           /\ weights' = Append(weights, a.weights)
           /\ step_terms' = Append(step_terms, a.termination)
           /\ ksi_hat' = a.ksi_hat
           /\ beta_hat' = a.beta_hat
           /\ alpha_hat' = a.alpha_hat
           /\ ksi_hat_cum' = a.ksi_hat_cum
    /\ i' = i + 1
    /\ UNCHANGED <<a_pc, M, text, input_lengths, input_h_c, memory, ret, passes>>
    /\ UNCHANGED <<gmm_vars, output_lengths, tts_vars, collate_vars, split_vars>>

\* the end of Attention.forward: the concatenations, the gather and the return
Return ==
    /\ a_pc = "loop"
    /\ i = Len(input_h_c[1])
    /\ LET t == gather(termination, [b \in Batch |-> input_lengths[b] - 1])
       IN  IF ~t.ok
           THEN a_pc' = "error" /\ UNCHANGED ret
           ELSE /\ a_pc' = "returned"
                /\ ret' = [context |-> <<context>>, alignment |-> weights,
                           termination |-> t.val]
    /\ UNCHANGED <<M, ksi_hat_cum, ksi_hat, beta_hat, alpha_hat, text,
                   input_lengths, input_h_c, memory, i, h_i, c_i, context,
                   contexts, weights, termination, step_terms, passes>>
    /\ UNCHANGED <<gmm_vars, output_lengths, tts_vars, collate_vars, split_vars>>

AttnNext == AttentionInit \/ Forward \/ LoopStep \/ Return


\* --------------------------------------------- the mixture on given inputs
RawVals == {-4, 0, 4}

GmmIdle == g_pc = "idle" /\ g_phi = <<>> /\ g_T = 0 /\ g_out = None

GmmStart ==
    /\ g_pc = "args"
    /\ \E nM \in 1 .. MaxK : g_phi \in [1 .. 3 * nM -> RawVals]
    /\ g_T \in 1 .. MaxTm + 1
    /\ g_out = None

\* Attention.attention on the drawn projection: lines 20 and 31-51
GmmEval ==
    /\ g_pc = "args"
    /\ LET nM == Len(g_phi) \div 3
           pr == Project(g_phi, nM)
       IN  g_out' = [alpha_hat |-> pr.alpha_hat] @@
                    GMM(pr.ksi_hat, pr.beta_hat, pr.alpha_hat, g_T)
    /\ g_pc' = "done"
    /\ UNCHANGED <<g_phi, g_T>>
    /\ UNCHANGED <<attn_vars, output_lengths, tts_vars, collate_vars, split_vars>>

GmmNext == GmmEval

\* ------------------------------------------------- TTS.forward, TTS.sample
Freq == 1 .. 2      \* the frequency bins of the spectrogram

\* 1/np.sqrt(2 * np.pi) = 0.3989..., in units of 1/SCALE
InvSqrt2Pi == 399

\* the mask with idx compared by <= instead of <
length_mask_le(lens, T) ==
    [b \in Batch |-> [t \in 1 .. T |-> lens[b] <= t]]

\* idx = arange(1, T + 1); mask = output_lengths.unsqueeze(-1) < idx.unsqueeze(0).
\* Position t of a sequence is the 0-indexed frame t - 1, and idx there is t.
length_mask(lens, T) ==
    [b \in Batch |-> [t \in 1 .. T |-> lens[b] < t]]

\* tensor.masked_fill(mask.unsqueeze(1).unsqueeze(3), value)
masked_fill(tensor, mask, value) ==
    [b \in Batch |-> [m \in Freq |-> [t \in 1 .. Len(mask[b]) |->
        [k \in 1 .. Len(tensor[b][m][t]) |->
            IF mask[b][t] THEN value ELSE tensor[b][m][t][k]]]]]

\* theta_hat[:, :, :, :K]
mu_of(theta, nK) ==
    [b \in Batch |-> [m \in Freq |-> [t \in 1 .. Len(theta[b][m]) |->
        [k \in 1 .. nK |-> theta[b][m][t][k]]]]]

\* torch.exp(theta_hat[:, :, :, K:2*K])
std_of(theta, nK) ==
    [b \in Batch |-> [m \in Freq |-> [t \in 1 .. Len(theta[b][m]) |->
        [k \in 1 .. nK |-> exp(theta[b][m][t][nK + k])]]]]

\* self.pi_softmax(theta_hat[:, :, :, 2*K:])
pi_of(theta, nK) ==
    [b \in Batch |-> [m \in Freq |-> [t \in 1 .. Len(theta[b][m]) |->
        softmax([k \in 1 .. nK |-> theta[b][m][t][2 * nK + k]])]]]

TTSIdle ==
    /\ output_lengths = Unset
    /\ t_pc = "idle" /\ K = 0 /\ theta_hat = Unset /\ t_ret = None
    /\ s_size = None /\ s_memory = None /\ s_i = 0 /\ s_err = None

\* a constructed TTS: self.K = hp.model.gmm
TTSStart ==
    /\ output_lengths = Unset
    /\ t_pc = "ready" /\ K \in 1 .. MaxK /\ theta_hat = Unset /\ t_ret = None
    /\ s_size = None /\ s_memory = None /\ s_i = 0 /\ s_err = None

\* TTS.forward from the projection of the layer stack's output to the return;
\* the layer stack (DelayedRNN) is outside these sources, so theta_hat is drawn.
ForwardMask ==
    /\ t_pc = "ready"
    /\ \E T \in 1 .. MaxTout :
       \E sd \in [Batch -> 0 .. 3], olens \in [Batch -> 1 .. T] :
        /\ \E b \in Batch : olens[b] = T
        /\ LET theta == [b \in Batch |-> [m \in Freq |-> [t \in 1 .. T |->
                            [j \in 1 .. 3 * K |->
                                ((sd[b] + 3 * m + 2 * t + t * j + j) % 9) - 4]]]]
               mask  == length_mask(olens, T)
           IN  /\ theta_hat' = theta
               /\ output_lengths' = olens
               /\ t_ret' = [mu  |-> masked_fill(mu_of(theta, K), mask, 0),
                            std |-> masked_fill(std_of(theta, K), mask, InvSqrt2Pi),
                            pi  |-> pi_of(theta, K)]
    /\ t_pc' = "forward_done"
    /\ UNCHANGED <<K, s_size, s_memory, s_i, s_err>>
    /\ UNCHANGED <<attn_vars, gmm_vars, collate_vars, split_vars>>

\* TTS.sample up to its loop: memory is what self.TextEncoder returns, the
\* pair (output, (h_n, c_n)) of the LSTM, not unpacked as TTS.forward does
SampleStart ==
    /\ t_pc = "ready"
    /\ \E nM \in 1 .. 3, T \in 0 .. MaxTout : s_size' = [M |-> nM, T |-> T]
    /\ s_memory' = "tuple"
    /\ s_i' = 0
    /\ s_err' = None
    /\ t_pc' = "sample_loop"
    /\ UNCHANGED <<output_lengths, K, theta_hat, t_ret>>
    /\ UNCHANGED <<attn_vars, gmm_vars, collate_vars, split_vars>>

\* one iteration of the loop of TTS.sample: self.attention reaches
\* memory.new_tensor (line 34) in its first step, which a tuple does not have
SampleIter ==
    /\ t_pc = "sample_loop"
    /\ s_i < s_size.T
    /\ s_memory = "tuple"
    /\ s_err' = "AttributeError"
    /\ t_pc' = "sample_error"
    /\ UNCHANGED <<output_lengths, K, theta_hat, t_ret, s_size, s_memory, s_i>>
    /\ UNCHANGED <<attn_vars, gmm_vars, collate_vars, split_vars>>

\* the return of TTS.sample after a loop of no iteration: mu, std and pi are unbound
SampleReturn ==
    /\ t_pc = "sample_loop"
    /\ s_i = s_size.T
    /\ s_i = 0
    /\ s_err' = "UnboundLocalError"
    /\ t_pc' = "sample_error"
    /\ UNCHANGED <<output_lengths, K, theta_hat, t_ret, s_size, s_memory, s_i>>
    /\ UNCHANGED <<attn_vars, gmm_vars, collate_vars, split_vars>>

TTSNext == ForwardMask \/ SampleStart \/ SampleIter \/ SampleReturn

\* ------------------------------------------------ TextCollate, AudioCollate
\* One item of a dataset: a token sequence of n tokens and a source and a
\* target tier of T frames each (cut_divide_tiers returns two tiers of one
\* shape), as rows of frequency bins.
FeaturePair(n, T, a) ==
    [seq    |-> [p \in 1 .. n |-> ((a + p) % 2) + 1],
     source |-> [f \in Freq |-> [t \in 1 .. T |-> (a + f * t) % 3]],
     target |-> [f \in Freq |-> [t \in 1 .. T |-> (a + f + 2 * t) % 3]]]

Items == {FeaturePair(n, T, a) : n \in 1 .. MaxTm, T \in 1 .. MaxTout, a \in {0, 1}}

RECURSIVE max_len(_)
max_len(seqs) ==
    IF seqs = <<>> THEN 0
    ELSE LET rest == max_len(Tail(seqs))
         IN  IF Len(Head(seqs)) > rest THEN Len(Head(seqs)) ELSE rest

\* pad_sequence filling in front of the data
pad_sequence_left(seqs, pad) ==
    [j \in 1 .. Len(seqs) |->
        [p \in 1 .. max_len(seqs) - Len(seqs[j]) |-> pad] \o seqs[j]]

\* torch.nn.utils.rnn.pad_sequence(seqs, batch_first=True): every sequence
\* right-padded with zeros (pad: a zero of the element's shape) to the longest
pad_sequence(seqs, pad) ==
    [j \in 1 .. Len(seqs) |->
        seqs[j] \o [p \in 1 .. max_len(seqs) - Len(seqs[j]) |-> pad]]

\* x.T of a matrix given as its rows, and transpose(1, 2) of one batch entry
transpose(m) ==
    IF m = <<>> THEN <<>>
    ELSE [c \in 1 .. Len(m[1]) |-> [r \in 1 .. Len(m) |-> m[r][c]]]

\* pad_sequence([torch.from_numpy(x.T) for x in ...], batch_first=True).transpose(1, 2)
padded_tiers(tiers) ==
    LET padded == pad_sequence([j \in 1 .. Len(tiers) |-> transpose(tiers[j])],
                               [f \in Freq |-> 0])
    IN  [j \in 1 .. Len(tiers) |-> transpose(padded[j])]

\* TextCollate.__call__
TextCollate(items) ==
    LET seq == [j \in 1 .. Len(items) |-> items[j].seq]
    IN  [seq_padded    |-> pad_sequence(seq, 0),
         text_lengths  |-> [j \in 1 .. Len(items) |-> Len(seq[j])],
         source_padded |-> padded_tiers([j \in 1 .. Len(items) |-> items[j].source]),
         target_padded |-> padded_tiers([j \in 1 .. Len(items) |-> items[j].target]),
         audio_lengths |-> [j \in 1 .. Len(items) |-> Len(items[j].source[1])]]

\* AudioCollate.__call__
AudioCollate(items) ==
    [source_padded |-> padded_tiers([j \in 1 .. Len(items) |-> items[j].source]),
     target_padded |-> padded_tiers([j \in 1 .. Len(items) |-> items[j].target]),
     audio_lengths |-> [j \in 1 .. Len(items) |-> Len(items[j].source[1])]]

CollateIdle == c_pc = "idle" /\ batch = <<>> /\ collated = None

CollateStart ==
    /\ c_pc = "ready"
    /\ \E n \in 1 .. MaxBatch : batch \in [1 .. n -> Items]
    /\ collated = None

TextCollateCall ==
    /\ c_pc = "ready"
    /\ collated' = TextCollate(batch)
    /\ c_pc' = "text"
    /\ UNCHANGED batch
    /\ UNCHANGED <<attn_vars, gmm_vars, output_lengths, tts_vars, split_vars>>

\* the items of an AudioOnlyDataset are the pairs (source, target)
AudioCollateCall ==
    /\ c_pc = "ready"
    /\ collated' = AudioCollate(batch)
    /\ c_pc' = "audio"
    /\ UNCHANGED batch
    /\ UNCHANGED <<attn_vars, gmm_vars, output_lengths, tts_vars, split_vars>>

CollateNext == TextCollateCall \/ AudioCollateCall

\* ------------------------------------------------ the shuffle and the split
\* random.seed skipped: the generator is left where the last use put it
seed_kept(a) == rng

\* random.seed(a): the state of the generator is a function of a alone
seed(a) == a % 65537

\* one draw of the generator (a linear congruential stand-in for the
\* Mersenne Twister: a deterministic function of the state)
next_state(st) == (st * 75 + 74) % 65537

\* random.shuffle: for i in reversed(range(1, len(x))): j = randbelow(i + 1);
\* x[i], x[j] = x[j], x[i].  Position i here is the 0-based index i - 1.
RECURSIVE shuffle_from(_, _, _)
shuffle_from(x, st, pos) ==
    IF pos < 2 THEN [list |-> x, state |-> st]
    ELSE LET st2 == next_state(st)
             j   == (st2 % pos) + 1
         IN  shuffle_from([x EXCEPT ![pos] = x[j], ![j] = x[pos]], st2, pos - 1)

shuffle(x, st) == shuffle_from(x, st, Len(x))

\* int(0.95 * len(self.dataset))
split_point(n) == (95 * n) \div 100

FileLists ==
    UNION {{f \in [1 .. n -> 1 .. n] : \A a, b \in 1 .. n : f[a] = f[b] => a = b} :
           n \in 0 .. MaxFiles}
    \cup {[k \in 1 .. 20 |-> k], [k \in 1 .. 40 |-> k]}

SplitIdle ==
    /\ file_list = <<>> /\ rng = 0 /\ shuffled = <<>>
    /\ train_list = <<>> /\ val_list = <<>> /\ built = {"idle"}

SplitStart ==
    /\ file_list \in FileLists /\ rng = 0 /\ shuffled = <<>>
    /\ train_list = <<>> /\ val_list = <<>> /\ built = {}

\* AudioTextDataset.__init__ from random.seed(123) on (AudioOnlyDataset.__init__
\* has the same lines on self.file_list)
DatasetInit(train) ==
    /\ "idle" \notin built
    /\ LET r   == shuffle(file_list, seed(123))
           cut == split_point(Len(r.list))
       IN  /\ rng' = r.state
           /\ shuffled' = r.list
           /\ IF train
              THEN /\ train_list' = SubSeq(r.list, 1, cut)
                   /\ built' = built \cup {"train"}
                   /\ UNCHANGED val_list
              ELSE /\ val_list' = SubSeq(r.list, cut + 1, Len(r.list))
                   /\ built' = built \cup {"val"}
                   /\ UNCHANGED train_list
    /\ UNCHANGED file_list
    /\ UNCHANGED <<attn_vars, gmm_vars, output_lengths, tts_vars, collate_vars>>

TrainDataset == DatasetInit(TRUE)

ValDataset == DatasetInit(FALSE)

SplitNext == TrainDataset \/ ValDataset

\* ---------------------------------------------------------- specifications
AttnInit == AttnStart /\ GmmIdle /\ TTSIdle /\ CollateIdle /\ SplitIdle

SpecAttn == AttnInit /\ [][AttnNext]_vars

GmmInit == AttnStart /\ GmmStart /\ TTSIdle /\ CollateIdle /\ SplitIdle

SpecGMM == GmmInit /\ [][GmmNext]_vars

TTSInit == AttnStart /\ GmmIdle /\ TTSStart /\ CollateIdle /\ SplitIdle

SpecTTS == TTSInit /\ [][TTSNext]_vars

CollateInit == AttnStart /\ GmmIdle /\ TTSIdle /\ CollateStart /\ SplitIdle

SpecCollate == CollateInit /\ [][CollateNext]_vars

SplitInit == AttnStart /\ GmmIdle /\ TTSIdle /\ CollateIdle /\ SplitStart

SpecSplit == SplitInit /\ [][SplitNext]_vars

\* ------------------------------------------------------------------ claims

\* C1: the termination Attention.forward returns for sample j is the
\* termination computed at loop step output_lengths[j] - 1, the step of that
\* sample's last valid output frame (read at the memory position the gather
\* reads).
C1_TerminationOfLastValidStep ==
    a_pc = "returned" =>
        \A b \in Batch :
            ret.termination[b] =
                step_terms[output_lengths[b]][b][input_lengths[b]]

\* C2: Attention.forward returns one context per loop step (the list
\* contexts, entry i being the context of step i) and an alignment with one
\* row per step.
C2_ContextPerTimestep ==
    a_pc = "returned" =>
        /\ ret.context = contexts
        /\ Len(ret.alignment) = Len(input_h_c[1])

\* C3: every alignment weight lies in [0, 1] and the weights of one step sum
\* to at most 1, for every center > 0, scale > 0 and mixture weights from a
\* softmax, and memory length T >= 1.
C3_WeightsBounded ==
    g_pc = "done" =>
        /\ \A p \in 1 .. g_T : g_out.weights[p] >= 0 /\ g_out.weights[p] <= SCALE
        /\ sum(g_out.weights) <= SCALE

\* C3 witness: two components, three memory slots, a weight strictly between
\* 0 and 1 and mass that fell outside [0, T)
C3_Witness ==
    /\ g_pc = "done" /\ Len(g_phi) = 6 /\ g_T = 3
    /\ g_out.alpha_hat[1] # g_out.alpha_hat[2]
    /\ \E p \in 1 .. g_T : g_out.weights[p] > 0 /\ g_out.weights[p] < SCALE
    /\ sum(g_out.weights) < SCALE
    /\ sum(g_out.weights) > 0

\* C4: memory rows at or beyond a sample's text length contribute nothing:
\* the context of every step is the one computed from the first
\* input_lengths[j] rows, and the alignment carries no weight on padding.
C4_PaddingNeverLeaks ==
    (a_pc \in {"loop", "returned"} /\ i > 0) =>
        \A b \in Batch :
            LET L == input_lengths[b]
                w == weights[i][b]
            IN  /\ context[b] = bmm(SubSeq(w, 1, L), SubSeq(memory[b], 1, L))
                /\ \A p \in L + 1 .. Len(memory[b]) : w[p] = 0

\* C8: an engine with M <= 0 mixture components, or a call with an empty
\* memory, ends in an error before any step is computed and never returns.
C8_InvalidSizesFailFirst ==
    (a_pc \in {"loop", "returned", "error"} /\ (M <= 0 \/ Len(memory[1]) = 0)) =>
        /\ a_pc # "returned"
        /\ i = 0
        /\ contexts = <<>>

\* C9: self.ksi_hat_cum stays None; the centers of a step are exp of that
\* step's own projection of h_i; every pass starts from zero h, c and context.
C9_CentersNotAccumulated ==
    /\ a_pc \notin {"new", "init_error"} => ksi_hat_cum = Unset
    /\ (a_pc = "loop" /\ i = 0) => (h_i = zeros /\ c_i = zeros /\ context = zeros)
    /\ (a_pc \in {"loop", "returned", "error"} /\ i > 0) =>
            \A b \in Batch : \A k \in 1 .. M :
                ksi_hat[b][k] = exp(W_g(h_i[b], M)[k])

\* C9 witness: the second pass through the object has run two steps
C9_Witness ==
    /\ a_pc = "returned" /\ passes = 2 /\ i = 2 /\ M = 2
    /\ h_i[1] # h_i[2]

\* C5: after the length mask of TTS.forward, at every 0-indexed frame
\* t >= output_lengths[b] mean is 0 and scale is 1/sqrt(2*pi) for every bin and
\* component; at every frame t < output_lengths[b] mean and scale are the
\* unmasked values; pi is the softmax of its slice at every position.
C5_LengthMask ==
    t_pc = "forward_done" =>
        \A b \in Batch : \A m \in Freq : \A t \in 0 .. Len(theta_hat[b][m]) - 1 :
            \A k \in 1 .. K :
                LET th == theta_hat[b][m][t + 1]
                IN  /\ t >= output_lengths[b] =>
                            /\ t_ret.mu[b][m][t + 1][k] = 0
                            /\ t_ret.std[b][m][t + 1][k] = InvSqrt2Pi
                    /\ t < output_lengths[b] =>
                            /\ t_ret.mu[b][m][t + 1][k] = th[k]
                            /\ t_ret.std[b][m][t + 1][k] = exp(th[K + k])
                    /\ t_ret.pi[b][m][t + 1] =
                            softmax([c \in 1 .. K |-> th[2 * K + c]])

\* C5 witness: a batch with a padded sample, whose last valid frame carries a
\* non-zero mean and whose first padded frame had one before the mask
C5_Witness ==
    /\ t_pc = "forward_done" /\ K = 2
    /\ output_lengths[1] = 1 /\ output_lengths[2] = 2
    /\ t_ret.mu[1][1][1][1] # 0
    /\ theta_hat[1][1][2][1] # 0
    /\ t_ret.mu[1][1][2][1] = 0

\* C10: every iteration of the loop of TTS.sample writes position i + 1
\* inside both buffers, and the call ends without an exception.
C10_SampleWritesInRange ==
    /\ (t_pc = "sample_loop" /\ s_i < s_size.T) =>
            (s_i + 1 < s_size.T /\ s_i + 1 < s_size.M)
    /\ t_pc # "sample_error"

\* trimming a padded tier back to n frames
trim(tier, n) == [f \in 1 .. Len(tier) |-> SubSeq(tier[f], 1, n)]

\* C6: the collate functions keep the order of the samples, right-pad with
\* zeros to the longest of the batch, and trimming row j of the padded tokens,
\* source and target to text_lengths[j] / audio_lengths[j] gives back sample j.
C6_CollateRoundTrip ==
    c_pc \in {"text", "audio"} =>
        /\ Len(collated.source_padded) = Len(batch)
        /\ Len(collated.target_padded) = Len(batch)
        /\ \A j \in 1 .. Len(batch) :
            LET n == collated.audio_lengths[j]
            IN  /\ trim(collated.source_padded[j], n) = batch[j].source
                /\ trim(collated.target_padded[j], n) = batch[j].target
                /\ \A f \in Freq :
                    /\ Len(collated.source_padded[j][f]) =
                            max_len([q \in 1 .. Len(batch) |-> batch[q].source[1]])
                    /\ Len(collated.target_padded[j][f]) =
                            max_len([q \in 1 .. Len(batch) |-> batch[q].target[1]])
                    /\ \A t \in n + 1 .. Len(collated.source_padded[j][f]) :
                            collated.source_padded[j][f][t] = 0
                    /\ \A t \in n + 1 .. Len(collated.target_padded[j][f]) :
                            collated.target_padded[j][f][t] = 0
        /\ c_pc = "text" =>
            /\ Len(collated.seq_padded) = Len(batch)
            /\ \A j \in 1 .. Len(batch) :
                LET n == collated.text_lengths[j]
                IN  /\ SubSeq(collated.seq_padded[j], 1, n) = batch[j].seq
                    /\ Len(collated.seq_padded[j]) =
                            max_len([q \in 1 .. Len(batch) |-> batch[q].seq])
                    /\ \A p \in n + 1 .. Len(collated.seq_padded[j]) :
                            collated.seq_padded[j][p] = 0

\* C6 witness: a collated text batch whose first sample is the shorter in
\* tokens and the longer in frames
C6_Witness ==
    /\ c_pc = "text" /\ Len(batch) = 2
    /\ Len(batch[1].seq) < Len(batch[2].seq)
    /\ Len(batch[1].source[1]) > Len(batch[2].source[1])
    /\ batch[2].source[1][1] # 0

\* C7, the state part: once both datasets are built, the two lists have no
\* sample in common, their sizes sum to n, the training list is the first
\* int(0.95 * n) entries of the shuffled list and the validation list the rest.
SplitPartition ==
    ({"train", "val"} \subseteq built) =>
        LET n == Len(file_list)
        IN  /\ \A a \in 1 .. Len(train_list) : \A b \in 1 .. Len(val_list) :
                    train_list[a] # val_list[b]
            /\ Len(train_list) + Len(val_list) = n
            /\ train_list \o val_list = shuffled
            /\ 100 * Len(train_list) <= 95 * n
            /\ 95 * n < 100 * (Len(train_list) + 1)
            /\ {shuffled[a] : a \in 1 .. n} = {file_list[a] : a \in 1 .. n}

\* C7, the step part: building a dataset again leaves its list as it was
SplitRepeats ==
    /\ "train" \in built => train_list' = train_list
    /\ "val" \in built => val_list' = val_list

\* C7: the split is the same on every construction and partitions the list.
C7_SplitDeterministic == [] SplitPartition /\ [][SplitRepeats]_vars

\* C7 witness: both datasets built from 40 samples, 38 for training and 2 for
\* validation, in an order the shuffle changed
C7_Witness ==
    /\ {"train", "val"} \subseteq built
    /\ Len(file_list) = 40 /\ Len(train_list) = 38 /\ Len(val_list) = 2
    /\ shuffled # file_list

====
